---- MODULE Spec2Model ----
(***************************************************************************)
(* Model of pkg/devspace/deploy/deploy.go: the deployment controller        *)
(* (Deploy, Render, Purge) and the invocation-scoped helm client cache      *)
(* (GetCachedHelmClient, getTillernamespace).                               *)
(*                                                                         *)
(* The controller is sequential.  Every blocking call into a collaborator  *)
(* (hook executer, kubectl.New, helm.New, helmclient.NewClient, the         *)
(* deployer's Deploy/Render/Delete) is one step whose outcome is chosen     *)
(* nondeterministically; the controller code between two collaborator      *)
(* calls (loop head, selection filter, engine dispatch, logging, error     *)
(* wrapping) is part of the step that precedes it.                         *)
(*                                                                         *)
(* Strings that the code inspects character by character (unit names,      *)
(* requested names) are sequences of one-character strings.                *)
(***************************************************************************)
EXTENDS Integers, Sequences, FiniteSets, TLC

\* ------------------------------------------------------------------ bounds
MaxUnits == 2   \* longest descriptor list
MaxSel == 1     \* longest selection
MaxCalls == 2   \* invocations on one controller

\* ------------------------------------------------------------- input sets
SeqsUpTo(S, n) == UNION {[1..k -> S] : k \in 0..n}

NoHelm == [set |-> FALSE, V2 |-> FALSE, TillerNamespace |-> ""]

\* deployment unit descriptors (latest.DeploymentConfig): Name, Kubectl
\* (non-nil or nil), Helm (non-nil with V2 / TillerNamespace, or nil)
Descriptors ==
  { [Name |-> <<"b">>, Kubectl |-> TRUE, Helm |-> NoHelm],
    [Name |-> <<" ", "b">>, Kubectl |-> FALSE,
     Helm |-> [set |-> TRUE, V2 |-> TRUE, TillerNamespace |-> ""]],
    [Name |-> <<"c">>, Kubectl |-> FALSE,
     Helm |-> [set |-> TRUE, V2 |-> TRUE, TillerNamespace |-> "t1"]],
    [Name |-> <<"d", " ">>, Kubectl |-> FALSE,
     Helm |-> [set |-> TRUE, V2 |-> FALSE, TillerNamespace |-> "t1"]],
    [Name |-> <<"e">>, Kubectl |-> FALSE, Helm |-> NoHelm] }

\* names a caller may request
RequestedNames == { <<"b">>, <<" ", "b">> }

\* a Go slice: nil, or a (possibly empty) sequence
NilSlice == [isNil |-> TRUE, items |-> <<>>]
Slice(s) == [isNil |-> FALSE, items |-> s]

Selections == {NilSlice} \cup {Slice(s) : s \in SeqsUpTo(RequestedNames, MaxSel)}

Configs ==
  {NilSlice} \cup
  {Slice(s) : s \in {t \in SeqsUpTo(Descriptors, MaxUnits) :
                       \A x, y \in DOMAIN t : t[x].Name = t[y].Name => x = y}}

\* the cluster client: nil, or one whose Namespace() is fixed
Clients == { [isNil |-> TRUE, Namespace |-> ""],
             [isNil |-> FALSE, Namespace |-> "t1"],
             [isNil |-> FALSE, Namespace |-> "t2"] }

\* hook.All, the wildcard hook target
All == <<"*">>
NoName == <<>>

VARIABLES
  configDeployments, \* c.config.Deployments
  client,            \* c.client
  callNo,            \* invocations started on this controller
  op,                \* the running (or last) operation
  selArg,            \* the selection as the caller passed it
  deployments,       \* the selection the loop filters with
  i,                 \* loop index (1-based)
  pc,                \* the collaborator call the controller makes next
  helmV2Clients,     \* the cache map of the invocation
  helmClient,        \* handle returned by GetCachedHelmClient
  err,               \* the local err: 0 = nil, else the failing call's position
  trace,             \* collaborator calls of the invocation, in order
  log,               \* observations emitted through the logger
  result,            \* value the invocation returned
  built              \* history: cache keys given a client by earlier invocations

vars == <<configDeployments, client, callNo, op, selArg, deployments, i, pc,
          helmV2Clients, helmClient, err, trace, log, result, built>>

\* ------------------------------------------------------------ pure helpers
Space == " "

RECURSIVE TrimLeft(_)
TrimLeft(s) == IF s # <<>> /\ Head(s) = Space THEN TrimLeft(Tail(s)) ELSE s

RECURSIVE TrimRight(_)
TrimRight(s) ==
  IF s # <<>> /\ s[Len(s)] = Space THEN TrimRight(SubSeq(s, 1, Len(s) - 1)) ELSE s

\* strings.TrimSpace
TrimSpace(s) == TrimRight(TrimLeft(s))

Units == configDeployments.items
N == Len(Units)

\* a filter that lets every unit through
ShouldSkipNever(sel, d) == FALSE

\* selection filter of Deploy and Render
ShouldSkip(sel, d) ==
  /\ Len(sel.items) > 0
  /\ ~ \E k \in 1..Len(sel.items) : sel.items[k] = TrimSpace(d.Name)

\* selection filter of Purge
NotFound(sel, d) ==
  /\ ~ sel.isNil
  /\ ~ \E k \in 1..Len(sel.items) : sel.items[k] = d.Name

Skips(o, sel, d) == IF o = "Purge" THEN NotFound(sel, d) ELSE ShouldSkip(sel, d)

\* a Purge that keeps an empty non-nil selection as it is
NormalizeNone(sel) == sel

\* Purge's normalisation of an empty non-nil selection
Normalize(sel) == IF ~ sel.isNil /\ Len(sel.items) = 0 THEN NilSlice ELSE sel

\* a Purge that walks the list front to back
IterForward(o) == [first |-> 1, step |-> 1]

\* loop order: range loop for Deploy and Render, reversed for Purge
Iter(o) == IF o = "Purge" THEN [first |-> N, step |-> -1] ELSE [first |-> 1, step |-> 1]
First(o) == Iter(o).first
\* the index before the loop has started
Before(o) == Iter(o).first - Iter(o).step
Succ(o, j) == j + Iter(o).step

RECURSIVE Seek(_, _, _)
Seek(o, sel, j) ==
  IF j \notin 1..N THEN j
  ELSE IF Skips(o, sel, Units[j]) THEN Seek(o, sel, Succ(o, j))
  ELSE j

getTillernamespace(kubeClient, d) ==
  IF ~ kubeClient.isNil /\ d.Helm.set /\ d.Helm.V2
  THEN IF d.Helm.TillerNamespace # "" THEN d.Helm.TillerNamespace
       ELSE kubeClient.Namespace
  ELSE ""

\* ------------------------------------------------------------ return values
Running == [done |-> FALSE, ok |-> FALSE, wrap |-> "", unit |-> NoName, cause |-> 0]
Nil == [done |-> TRUE, ok |-> TRUE, wrap |-> "", unit |-> NoName, cause |-> 0]
\* errors.Errorf / errors.Wrap around cause c; wrap "" is the bare error
Error(w, u, c) == [done |-> TRUE, ok |-> FALSE, wrap |-> w, unit |-> u, cause |-> c]

Stage(o) == IF o = "Purge" THEN "purgeDeployments" ELSE "deployments"

NoHandle == <<0, 0>>
NoCall == [call |-> "", timing |-> "", stage |-> "", unit |-> 0, wild |-> FALSE,
           ok |-> TRUE, was |-> FALSE, key |-> "", handle |-> NoHandle,
           dry |-> FALSE]

Hook(c, t, u, w, k) ==
  [NoCall EXCEPT !.call = c, !.timing = t, !.stage = Stage(op), !.unit = u,
                 !.wild = w, !.ok = k]
Construct(c, u, k) == [NoCall EXCEPT !.call = c, !.unit = u, !.ok = k]
Engine(c, u, k, a) == [NoCall EXCEPT !.call = c, !.unit = u, !.ok = k, !.was = a]

Obs(l, u, c) == [level |-> l, unit |-> u, cause |-> c]

\* a dispatch that passes over a unit with no engine block
LoopFromLenient(o, sel, from) ==
  LET j == Seek(o, sel, from) IN
  IF j \notin 1..N
  THEN IF o = "Render" THEN [pc |-> "idle", i |-> j, result |-> Nil]
       ELSE [pc |-> "hookAfterAll", i |-> j, result |-> Running]
  ELSE IF Units[j].Kubectl
       THEN [pc |-> "kubectlNew", i |-> j, result |-> Running]
  ELSE IF Units[j].Helm.set
       THEN [pc |-> "getCachedHelmClient", i |-> j, result |-> Running]
  ELSE [pc |-> IF o = "Render" THEN "operate" ELSE "hookBefore", i |-> j,
        result |-> Running]

\* control after the loop head is reached with index j: the next selected
\* unit is dispatched on its engine block, or the loop is over
LoopFrom(o, sel, from) ==
  LET j == Seek(o, sel, from) IN
  IF j \notin 1..N
  THEN IF o = "Render" THEN [pc |-> "idle", i |-> j, result |-> Nil]
       ELSE [pc |-> "hookAfterAll", i |-> j, result |-> Running]
  ELSE IF Units[j].Kubectl
       THEN [pc |-> "kubectlNew", i |-> j, result |-> Running]
  ELSE IF Units[j].Helm.set
       THEN [pc |-> "getCachedHelmClient", i |-> j, result |-> Running]
  ELSE [pc |-> "idle", i |-> j,
        result |-> Error(IF o = "Deploy" THEN "Error deploying: no deployment method"
                         ELSE IF o = "Render" THEN "Error render: no deployment method"
                         ELSE "Error purging: no deployment method",
                         Units[j].Name, 0)]

Goto(r) == /\ pc' = r.pc
           /\ i' = r.i
           /\ result' = r.result

Return(r) == /\ pc' = "idle"
             /\ result' = r
             /\ UNCHANGED i

EmptyMap == [k \in {} |-> NoHandle]

Init ==
  /\ configDeployments \in Configs
  /\ client \in Clients
  /\ callNo = 0
  /\ op = "none"
  /\ selArg = NilSlice
  /\ deployments = NilSlice
  /\ i = 0
  /\ pc = "idle"
  /\ helmV2Clients = EmptyMap
  /\ helmClient = NoHandle
  /\ err = 0
  /\ trace = <<>>
  /\ log = <<>>
  /\ result = Nil
  /\ built = {}

\* a cache map that outlives the invocation
KeptClientsMap == helmV2Clients

\* helmV2Clients := map[string]helmtypes.Client{}
NewClientsMap == EmptyMap

\* what every entry point resets
Enter(o, sel) ==
  /\ pc = "idle"
  /\ callNo < MaxCalls
  /\ callNo' = callNo + 1
  /\ op' = o
  /\ selArg' = sel
  /\ trace' = <<>>
  /\ log' = <<>>
  /\ err' = 0
  /\ helmClient' = NoHandle
  /\ built' = built \cup {trace[x].key : x \in {y \in 1..Len(trace) :
                              /\ trace[y].call = "helmclient.NewClient"
                              /\ trace[y].ok /\ trace[y].key # ""}}
  /\ UNCHANGED <<configDeployments, client>>

\* a Render that starts with the wildcard before hook, as Deploy does
RenderWithHooks ==
  \E sel \in Selections :
    /\ Enter("Render", sel)
    /\ deployments' = sel
    /\ IF ~ configDeployments.isNil /\ N > 0
       THEN /\ helmV2Clients' = NewClientsMap
            /\ pc' = "hookBeforeAll"
            /\ result' = Running
            /\ i' = Before("Render")
       ELSE /\ Goto([pc |-> "idle", i |-> Before("Render"), result |-> Nil])
            /\ UNCHANGED helmV2Clients

\* controller.Render up to its first collaborator call
Render ==
  \E sel \in Selections :
    /\ Enter("Render", sel)
    /\ deployments' = sel
    /\ IF ~ configDeployments.isNil /\ N > 0
       THEN /\ helmV2Clients' = NewClientsMap
            /\ Goto(LoopFrom("Render", sel, First("Render")))
       ELSE /\ Goto([pc |-> "idle", i |-> Before("Render"), result |-> Nil])
            /\ UNCHANGED helmV2Clients

\* a Deploy that guards on the list being non-nil only, as Purge does
DeployNilGuard ==
  \E sel \in Selections :
    /\ Enter("Deploy", sel)
    /\ deployments' = sel
    /\ IF ~ configDeployments.isNil
       THEN /\ helmV2Clients' = NewClientsMap
            /\ pc' = "hookBeforeAll"
            /\ result' = Running
            /\ i' = Before("Deploy")
       ELSE /\ Goto([pc |-> "idle", i |-> Before("Deploy"), result |-> Nil])
            /\ UNCHANGED helmV2Clients

\* controller.Deploy up to its first collaborator call
Deploy ==
  \E sel \in Selections :
    /\ Enter("Deploy", sel)
    /\ deployments' = sel
    /\ IF ~ configDeployments.isNil /\ N > 0
       THEN /\ helmV2Clients' = NewClientsMap
            /\ pc' = "hookBeforeAll"
            /\ result' = Running
            /\ i' = Before("Deploy")
       ELSE /\ Goto([pc |-> "idle", i |-> Before("Deploy"), result |-> Nil])
            /\ UNCHANGED helmV2Clients

\* a Purge that guards on the list being non-empty, as Deploy does
PurgeLenGuard ==
  \E sel \in Selections :
    /\ Enter("Purge", sel)
    /\ deployments' = Normalize(sel)
    /\ IF ~ configDeployments.isNil /\ N > 0
       THEN /\ helmV2Clients' = NewClientsMap
            /\ pc' = "hookBeforeAll"
            /\ result' = Running
            /\ i' = Before("Purge")
       ELSE /\ Goto([pc |-> "idle", i |-> Before("Purge"), result |-> Nil])
            /\ UNCHANGED helmV2Clients

\* controller.Purge up to its first collaborator call
Purge ==
  \E sel \in Selections :
    /\ Enter("Purge", sel)
    /\ deployments' = Normalize(sel)
    /\ IF ~ configDeployments.isNil
       THEN /\ helmV2Clients' = NewClientsMap
            /\ pc' = "hookBeforeAll"
            /\ result' = Running
            /\ i' = Before("Purge")
       ELSE /\ Goto([pc |-> "idle", i |-> Before("Purge"), result |-> Nil])
            /\ UNCHANGED helmV2Clients

Frame == UNCHANGED <<configDeployments, client, callNo, op, selArg, deployments, built>>

\* the wildcard before hook of Deploy and Purge, then the loop head
HookBeforeAll ==
  /\ pc = "hookBeforeAll"
  /\ \E k \in BOOLEAN :
       /\ trace' = Append(trace, Hook("Execute", "before", 0, TRUE, k))
       /\ IF k THEN Goto(LoopFrom(op, deployments, First(op)))
          ELSE Return(Error("", NoName, Len(trace) + 1))
  /\ UNCHANGED <<helmV2Clients, helmClient, err, log>>
  /\ Frame

\* kubectl.New for the unit at i
KubectlNew ==
  /\ pc = "kubectlNew"
  /\ \E k \in BOOLEAN :
       /\ trace' = Append(trace, Construct("kubectl.New", i, k))
       /\ IF k
          THEN /\ pc' = IF op = "Render" THEN "operate" ELSE "hookBefore"
               /\ UNCHANGED <<i, result>>
          ELSE Return(IF op = "Deploy"
                      THEN Error("Error deploying: deployment error", Units[i].Name, Len(trace) + 1)
                      ELSE IF op = "Render"
                      THEN Error("Error render: deployment error", Units[i].Name, Len(trace) + 1)
                      ELSE Error("create kube client", NoName, Len(trace) + 1))
  /\ UNCHANGED <<helmV2Clients, helmClient, err, log>>
  /\ Frame

\* a cache that looks up and stores under the empty key as well
GetCachedHelmClientAnyKey ==
  /\ pc = "getCachedHelmClient"
  /\ LET tillerNamespace == getTillernamespace(client, Units[i]) IN
     IF tillerNamespace \in DOMAIN helmV2Clients
     THEN /\ helmClient' = helmV2Clients[tillerNamespace]
          /\ pc' = "helmNew"
          /\ UNCHANGED <<helmV2Clients, trace, i, result>>
     ELSE \E k \in BOOLEAN :
            LET h == <<callNo, 1 + Cardinality({x \in 1..Len(trace) :
                                     trace[x].call = "helmclient.NewClient"})>>
                c == [Construct("helmclient.NewClient", i, k) EXCEPT
                        !.key = tillerNamespace,
                        !.handle = IF k THEN h ELSE NoHandle,
                        !.dry = (op = "Render")]
            IN
            /\ trace' = Append(trace, c)
            /\ IF k
               THEN /\ helmClient' = h
                    /\ helmV2Clients' =
                         [x \in DOMAIN helmV2Clients \cup {tillerNamespace} |->
                            IF x = tillerNamespace THEN h ELSE helmV2Clients[x]]
                    /\ pc' = "helmNew"
                    /\ UNCHANGED <<i, result>>
               ELSE /\ Return(IF op = "Deploy"
                              THEN Error("", NoName, Len(trace) + 1)
                              ELSE Error("get cached helm client", NoName, Len(trace) + 1))
                    /\ UNCHANGED <<helmClient, helmV2Clients>>
  /\ UNCHANGED <<err, log>>
  /\ Frame

\* GetCachedHelmClient for the unit at i, and the caller's error check
GetCachedHelmClient ==
  /\ pc = "getCachedHelmClient"
  /\ LET tillerNamespace == getTillernamespace(client, Units[i]) IN
     IF tillerNamespace # "" /\ tillerNamespace \in DOMAIN helmV2Clients
     THEN /\ helmClient' = helmV2Clients[tillerNamespace]
          /\ pc' = "helmNew"
          /\ UNCHANGED <<helmV2Clients, trace, i, result>>
     ELSE \E k \in BOOLEAN :
            LET h == <<callNo, 1 + Cardinality({x \in 1..Len(trace) :
                                     trace[x].call = "helmclient.NewClient"})>>
                c == [Construct("helmclient.NewClient", i, k) EXCEPT
                        !.key = tillerNamespace,
                        !.handle = IF k THEN h ELSE NoHandle,
                        !.dry = (op = "Render")]
            IN
            /\ trace' = Append(trace, c)
            /\ IF k
               THEN /\ helmClient' = h
                    /\ helmV2Clients' =
                         IF tillerNamespace # ""
                         THEN [x \in DOMAIN helmV2Clients \cup {tillerNamespace} |->
                                 IF x = tillerNamespace THEN h ELSE helmV2Clients[x]]
                         ELSE helmV2Clients
                    /\ pc' = "helmNew"
                    /\ UNCHANGED <<i, result>>
               ELSE /\ Return(IF op = "Deploy"
                              THEN Error("", NoName, Len(trace) + 1)
                              ELSE Error("get cached helm client", NoName, Len(trace) + 1))
                    /\ UNCHANGED <<helmClient, helmV2Clients>>
  /\ UNCHANGED <<err, log>>
  /\ Frame

\* helm.New for the unit at i, with the handle GetCachedHelmClient returned
HelmNew ==
  /\ pc = "helmNew"
  /\ \E k \in BOOLEAN :
       /\ trace' = Append(trace, [Construct("helm.New", i, k) EXCEPT !.handle = helmClient])
       /\ IF k
          THEN /\ pc' = IF op = "Render" THEN "operate" ELSE "hookBefore"
               /\ UNCHANGED <<i, result>>
          ELSE Return(IF op = "Deploy"
                      THEN Error("Error deploying: deployment error", Units[i].Name, Len(trace) + 1)
                      ELSE IF op = "Render"
                      THEN Error("Error render: deployment error", Units[i].Name, Len(trace) + 1)
                      ELSE Error("create helm client", NoName, Len(trace) + 1))
  /\ UNCHANGED <<helmV2Clients, helmClient, err, log>>
  /\ Frame

\* a before hook whose failure is not checked
HookBeforeUnchecked ==
  /\ pc = "hookBefore"
  /\ \E k \in BOOLEAN :
       /\ trace' = Append(trace, Hook("Execute", "before", i, FALSE, k))
       /\ pc' = "operate"
       /\ UNCHANGED <<i, result>>
  /\ UNCHANGED <<helmV2Clients, helmClient, err, log>>
  /\ Frame

\* the per-unit before hook of Deploy and Purge
HookBefore ==
  /\ pc = "hookBefore"
  /\ \E k \in BOOLEAN :
       /\ trace' = Append(trace, Hook("Execute", "before", i, FALSE, k))
       /\ IF k THEN /\ pc' = "operate"
                    /\ UNCHANGED <<i, result>>
          ELSE Return(Error("", NoName, Len(trace) + 1))
  /\ UNCHANGED <<helmV2Clients, helmClient, err, log>>
  /\ Frame

\* a Deploy that leaves the loop at the first unit that was not applied
DeployClientDeployBreak ==
  /\ pc = "operate" /\ op = "Deploy"
  /\ \E k \in BOOLEAN, wasDeployed \in BOOLEAN :
       /\ k \/ ~ wasDeployed
       /\ trace' = Append(trace, Engine("Deploy", i, k, wasDeployed))
       /\ IF ~ k
          THEN /\ err' = Len(trace) + 1
               /\ pc' = "hookOnError"
               /\ UNCHANGED <<i, result, log>>
          ELSE IF wasDeployed
          THEN /\ log' = Append(log, Obs("Donef", Units[i].Name, 0))
               /\ pc' = "hookAfter"
               /\ UNCHANGED <<i, result, err>>
          ELSE /\ log' = Append(log, Obs("Infof", Units[i].Name, 0))
               /\ Goto([pc |-> "hookAfterAll", i |-> N + 1, result |-> Running])
               /\ UNCHANGED err
  /\ UNCHANGED <<helmV2Clients, helmClient>>
  /\ Frame

\* a Deploy that runs the after hook whenever apply succeeded
DeployClientDeployAlwaysAfter ==
  /\ pc = "operate" /\ op = "Deploy"
  /\ \E k \in BOOLEAN, wasDeployed \in BOOLEAN :
       /\ k \/ ~ wasDeployed
       /\ trace' = Append(trace, Engine("Deploy", i, k, wasDeployed))
       /\ IF ~ k
          THEN /\ err' = Len(trace) + 1
               /\ pc' = "hookOnError"
               /\ UNCHANGED <<i, result, log>>
          ELSE /\ log' = Append(log, Obs(IF wasDeployed THEN "Donef" ELSE "Infof",
                                         Units[i].Name, 0))
               /\ pc' = "hookAfter"
               /\ UNCHANGED <<i, result, err>>
  /\ UNCHANGED <<helmV2Clients, helmClient>>
  /\ Frame

\* deployClient.Deploy and the branches on its result
DeployClientDeploy ==
  /\ pc = "operate" /\ op = "Deploy"
  /\ \E k \in BOOLEAN, wasDeployed \in BOOLEAN :
       /\ k \/ ~ wasDeployed
       /\ trace' = Append(trace, Engine("Deploy", i, k, wasDeployed))
       /\ IF ~ k
          THEN /\ err' = Len(trace) + 1
               /\ pc' = "hookOnError"
               /\ UNCHANGED <<i, result, log>>
          ELSE IF wasDeployed
          THEN /\ log' = Append(log, Obs("Donef", Units[i].Name, 0))
               /\ pc' = "hookAfter"
               /\ UNCHANGED <<i, result, err>>
          ELSE /\ log' = Append(log, Obs("Infof", Units[i].Name, 0))
               /\ Goto(LoopFrom(op, deployments, Succ(op, i)))
               /\ UNCHANGED err
  /\ UNCHANGED <<helmV2Clients, helmClient>>
  /\ Frame

\* deployClient.Render and the branches on its result
DeployClientRender ==
  /\ pc = "operate" /\ op = "Render"
  /\ \E k \in BOOLEAN :
       /\ trace' = Append(trace, Engine("Render", i, k, FALSE))
       /\ IF k THEN Goto(LoopFrom(op, deployments, Succ(op, i)))
          ELSE Return(Error("Error deploying", Units[i].Name, Len(trace) + 1))
  /\ UNCHANGED <<helmV2Clients, helmClient, err, log>>
  /\ Frame

\* a Delete whose failure ends the sweep
DeployClientDeleteFatal ==
  /\ pc = "operate" /\ op = "Purge"
  /\ \E k \in BOOLEAN :
       /\ trace' = Append(trace, Engine("Delete", i, k, FALSE))
       /\ log' = log \o << Obs("StartWait", Units[i].Name, 0), Obs("StopWait", NoName, 0) >>
       /\ err' = IF k THEN 0 ELSE Len(trace) + 1
       /\ IF k THEN /\ pc' = "hookAfter"
                    /\ UNCHANGED <<i, result>>
          ELSE Return(Error("Error purging", Units[i].Name, err'))
  /\ UNCHANGED <<helmV2Clients, helmClient>>
  /\ Frame

\* deployClient.Delete between StartWait and StopWait
DeployClientDelete ==
  /\ pc = "operate" /\ op = "Purge"
  /\ \E k \in BOOLEAN :
       /\ trace' = Append(trace, Engine("Delete", i, k, FALSE))
       /\ log' = log \o << Obs("StartWait", Units[i].Name, 0), Obs("StopWait", NoName, 0) >>
       /\ err' = IF k THEN 0 ELSE Len(trace) + 1
       /\ pc' = IF k THEN "hookAfter" ELSE "hookOnError"
  /\ UNCHANGED <<helmV2Clients, helmClient, i, result>>
  /\ Frame

\* a Purge that confirms a deletion only when delete succeeded
HookOnErrorWarnOnly ==
  /\ pc = "hookOnError"
  /\ \E k \in BOOLEAN :
       IF op = "Deploy"
       THEN /\ trace' = Append(trace, Hook("OnError", "onError", i, TRUE, k))
            /\ Return(Error("Error deploying", Units[i].Name, err))
            /\ UNCHANGED <<err, log>>
       ELSE /\ trace' = Append(trace, Hook("Execute", "onError", i, FALSE, k))
            /\ err' = IF k THEN 0 ELSE Len(trace) + 1
            /\ IF ~ k
               THEN /\ Return(Error("", NoName, err'))
                    /\ UNCHANGED log
               ELSE /\ log' = Append(log, Obs("Warnf", Units[i].Name, err'))
                    /\ Goto(LoopFrom(op, deployments, Succ(op, i)))
  /\ UNCHANGED <<helmV2Clients, helmClient>>
  /\ Frame

\* an on-error hook whose own failure is what Deploy returns
HookOnErrorMasking ==
  /\ pc = "hookOnError"
  /\ \E k \in BOOLEAN :
       IF op = "Deploy"
       THEN /\ trace' = Append(trace, Hook("OnError", "onError", i, TRUE, k))
            /\ Return(IF k THEN Error("Error deploying", Units[i].Name, err)
                           ELSE Error("", NoName, Len(trace) + 1))
            /\ UNCHANGED <<err, log>>
       ELSE /\ trace' = Append(trace, Hook("Execute", "onError", i, FALSE, k))
            /\ err' = IF k THEN 0 ELSE Len(trace) + 1
            /\ IF ~ k
               THEN /\ Return(Error("", NoName, err'))
                    /\ UNCHANGED log
               ELSE /\ log' = log \o << Obs("Warnf", Units[i].Name, err'),
                                        Obs("Donef", Units[i].Name, 0) >>
                    /\ Goto(LoopFrom(op, deployments, Succ(op, i)))
  /\ UNCHANGED <<helmV2Clients, helmClient>>
  /\ Frame

\* the on-error hook: Deploy ignores its outcome and returns the apply
\* error; Purge assigns its outcome to err, checks it, warns and goes on
HookOnError ==
  /\ pc = "hookOnError"
  /\ \E k \in BOOLEAN :
       IF op = "Deploy"
       THEN /\ trace' = Append(trace, Hook("OnError", "onError", i, TRUE, k))
            /\ Return(Error("Error deploying", Units[i].Name, err))
            /\ UNCHANGED <<err, log>>
       ELSE /\ trace' = Append(trace, Hook("Execute", "onError", i, FALSE, k))
            /\ err' = IF k THEN 0 ELSE Len(trace) + 1
            /\ IF ~ k
               THEN /\ Return(Error("", NoName, err'))
                    /\ UNCHANGED log
               ELSE /\ log' = log \o << Obs("Warnf", Units[i].Name, err'),
                                        Obs("Donef", Units[i].Name, 0) >>
                    /\ Goto(LoopFrom(op, deployments, Succ(op, i)))
  /\ UNCHANGED <<helmV2Clients, helmClient>>
  /\ Frame

\* an after hook whose failure is not checked
HookAfterUnchecked ==
  /\ pc = "hookAfter"
  /\ \E k \in BOOLEAN :
       /\ trace' = Append(trace, Hook("Execute", "after", i, FALSE, k))
       /\ err' = IF k THEN 0 ELSE Len(trace) + 1
       /\ log' = IF op = "Purge"
                  THEN Append(log, Obs("Donef", Units[i].Name, 0))
                  ELSE log
       /\ Goto(LoopFrom(op, deployments, Succ(op, i)))
  /\ UNCHANGED <<helmV2Clients, helmClient>>
  /\ Frame

\* the per-unit after hook of Deploy and Purge
HookAfter ==
  /\ pc = "hookAfter"
  /\ \E k \in BOOLEAN :
       /\ trace' = Append(trace, Hook("Execute", "after", i, FALSE, k))
       /\ err' = IF k THEN 0 ELSE Len(trace) + 1
       /\ IF ~ k
          THEN /\ Return(Error("", NoName, err'))
               /\ UNCHANGED log
          ELSE /\ log' = IF op = "Purge"
                         THEN Append(log, Obs("Donef", Units[i].Name, 0))
                         ELSE log
               /\ Goto(LoopFrom(op, deployments, Succ(op, i)))
  /\ UNCHANGED <<helmV2Clients, helmClient>>
  /\ Frame

\* a wildcard after hook whose failure is dropped
HookAfterAllUnchecked ==
  /\ pc = "hookAfterAll"
  /\ \E k \in BOOLEAN :
       /\ trace' = Append(trace, Hook("Execute", "after", 0, TRUE, k))
       /\ Return(Nil)
  /\ UNCHANGED <<helmV2Clients, helmClient, err, log>>
  /\ Frame

\* the wildcard after hook of Deploy and Purge
HookAfterAll ==
  /\ pc = "hookAfterAll"
  /\ \E k \in BOOLEAN :
       /\ trace' = Append(trace, Hook("Execute", "after", 0, TRUE, k))
       /\ Return(IF k THEN Nil ELSE Error("", NoName, Len(trace) + 1))
  /\ UNCHANGED <<helmV2Clients, helmClient, err, log>>
  /\ Frame

Next ==
  \/ Deploy
  \/ Render
  \/ Purge
  \/ HookBeforeAll
  \/ KubectlNew
  \/ GetCachedHelmClient
  \/ HelmNew
  \/ HookBefore
  \/ DeployClientDeploy
  \/ DeployClientRender
  \/ DeployClientDelete
  \/ HookOnError
  \/ HookAfter
  \/ HookAfterAll

Spec == Init /\ [][Next]_vars

\* ------------------------------------------------------- reading the trace
Returned == pc = "idle" /\ callNo > 0
Pos == 1..Len(trace)
EngineOps == {"Deploy", "Render", "Delete"}
OpCall(o) == IF o = "Purge" THEN "Delete" ELSE o
IsAfterAll(c) == c.call = "Execute" /\ c.timing = "after" /\ c.wild /\ c.unit = 0
IsBeforeAll(c) == c.call = "Execute" /\ c.timing = "before" /\ c.wild /\ c.unit = 0
NoMethod(r) == r.done /\ ~ r.ok /\ r.cause = 0
HasEngine(d) == d.Kubectl \/ d.Helm.set

\* C1: the units of the calls of an invocation appear in configuration order
\* in Deploy and Render and in reversed configuration order in Purge, each
\* unit's calls are contiguous, and the engine operation (apply, render,
\* delete; the one that belongs to the operation) is invoked on strictly
\* ascending, for Purge strictly descending, positions of the list.
C1Order ==
  \A x, y \in Pos :
    (x < y /\ trace[x].unit > 0 /\ trace[y].unit > 0) =>
      /\ IF op = "Purge" THEN trace[x].unit >= trace[y].unit
                          ELSE trace[x].unit <= trace[y].unit
      /\ (trace[x].call \in EngineOps /\ trace[y].call \in EngineOps) =>
            /\ trace[x].unit # trace[y].unit
            /\ trace[x].call = OpCall(op)
            /\ trace[y].call = OpCall(op)

C1Witness ==
  /\ Returned /\ op = "Purge"
  /\ \E x, y \in Pos : /\ x < y
                        /\ trace[x].call = "Delete" /\ trace[x].unit = 2
                        /\ trace[y].call = "Delete" /\ trace[y].unit = 1

\* C2: in Deploy and Render a failed collaborator call is the last call of
\* the invocation and the invocation returns an error; the one exception is
\* a failed apply, which is followed by the on-error hook of the same unit
\* and by nothing else.
C2FirstErrorWins ==
  op \in {"Deploy", "Render"} =>
    \A x \in Pos :
      ~ trace[x].ok =>
        \/ /\ x = Len(trace) /\ trace[x].call = "Deploy"
           /\ pc = "hookOnError"
        \/ /\ x = Len(trace) /\ trace[x].call # "Deploy"
           /\ Returned /\ ~ result.ok
        \/ /\ x = Len(trace) - 1 /\ trace[x].call = "Deploy"
           /\ trace[x + 1].call = "OnError" /\ trace[x + 1].unit = trace[x].unit
           /\ Returned /\ ~ result.ok

C2Witness ==
  /\ Returned /\ op = "Deploy" /\ N = 2 /\ Len(deployments.items) = 0
  /\ ~ result.ok
  /\ Len(trace) >= 2
  /\ trace[Len(trace)].call = "OnError" /\ trace[Len(trace)].unit = 1
  /\ ~ trace[Len(trace) - 1].ok
  /\ HasEngine(Units[2])

\* C3: a Deploy whose wildcard after hook failed returns an error.
C3AfterAllFails ==
  (Returned /\ op = "Deploy" /\ trace # <<>>
     /\ IsAfterAll(trace[Len(trace)]) /\ ~ trace[Len(trace)].ok)
    => ~ result.ok

C3Witness ==
  /\ Returned /\ op = "Deploy" /\ trace # <<>>
  /\ IsAfterAll(trace[Len(trace)]) /\ ~ trace[Len(trace)].ok
  /\ \A x \in 1..(Len(trace) - 1) : trace[x].ok
  /\ \E x \in Pos : trace[x].call = "Deploy" /\ trace[x].was

\* units the loop has reached, and units it entered the body for
Visited(j) == j \in 1..N /\ (IF op = "Purge" THEN j >= i ELSE j <= i)
HasCalls(j) == \E x \in Pos : trace[x].unit = j
Processed(j) == j = i \/ HasCalls(j)
Requested(name) == \E k \in 1..Len(selArg.items) : selArg.items[k] = name
Deleted(j) == \E x \in Pos : trace[x].call = "Delete" /\ trace[x].unit = j

\* the units a Purge is asked for: those whose name is requested, every
\* unit when the selection is nil or empty
PurgeSelected(j) == selArg.isNil \/ Len(selArg.items) = 0 \/ Requested(Units[j].Name)

\* C4 as stated: after a failed delete, Purge still deletes every remaining
\* selected unit and still runs the wildcard after hook at the end.
C4Original ==
  (Returned /\ op = "Purge" /\ \E x \in Pos : trace[x].call = "Delete" /\ ~ trace[x].ok)
    => /\ IsAfterAll(trace[Len(trace)])
       /\ \A j \in 1..N : PurgeSelected(j) => Deleted(j)

\* C4 amended: in a Purge in which a delete failed, and in which no
\* construction and no hook before the wildcard after hook failed and no
\* selected unit lacks an engine block, every selected unit has had its
\* delete invoked, once, in reversed configuration order, and the wildcard
\* after hook is the last call.
C4Amended ==
  (/\ Returned /\ op = "Purge"
   /\ \E x \in Pos : trace[x].call = "Delete" /\ ~ trace[x].ok
   /\ \A x \in Pos : ~ trace[x].ok => (trace[x].call = "Delete" \/ IsAfterAll(trace[x]))
   /\ \A j \in 1..N : PurgeSelected(j) => HasEngine(Units[j]))
    => /\ IsAfterAll(trace[Len(trace)])
       /\ \A j \in 1..N : PurgeSelected(j) => Deleted(j)
       /\ \A x, y \in Pos :
            (x < y /\ trace[x].call = "Delete" /\ trace[y].call = "Delete")
              => trace[x].unit > trace[y].unit

C4Witness ==
  /\ Returned /\ op = "Purge" /\ N = 2
  /\ IsAfterAll(trace[Len(trace)])
  /\ \E x, y \in Pos : /\ x < y
                        /\ trace[x].call = "Delete" /\ trace[x].unit = 2 /\ ~ trace[x].ok
                        /\ trace[y].call = "Delete" /\ trace[y].unit = 1

\* C5: a Purge given an empty non-nil selection filters with a nil
\* selection, exactly as a Purge given nil does: the loop skips no unit, so
\* every unit it reaches is processed, and a Purge that returns success has
\* invoked delete on every descriptor.
C5EmptyIsNil ==
  (op = "Purge" /\ (selArg.isNil \/ Len(selArg.items) = 0)) =>
    /\ deployments = NilSlice
    /\ \A j \in 1..N : Visited(j) => Processed(j)
    /\ (Returned /\ result.ok) => \A j \in 1..N : Deleted(j)

C5Witness ==
  /\ Returned /\ op = "Purge" /\ result.ok
  /\ ~ selArg.isNil /\ Len(selArg.items) = 0
  /\ N = 2 /\ Deleted(1) /\ Deleted(2)

\* C6 as stated: in a Deploy with a non-empty selection, a unit whose name is
\* not one of the requested names has no construction, no hook and no apply.
C6Original ==
  (op = "Deploy" /\ Len(selArg.items) > 0) =>
    \A j \in 1..N : ~ Requested(Units[j].Name) => ~ HasCalls(j)

\* C6 amended: in a Deploy with a non-empty selection, a unit whose name
\* with surrounding whitespace trimmed is not one of the requested names has
\* no construction, no hook and no apply, and the loop body is never entered
\* for it.
C6Amended ==
  (op = "Deploy" /\ Len(selArg.items) > 0) =>
    \A j \in 1..N : ~ Requested(TrimSpace(Units[j].Name)) => ~ Processed(j)

C6Witness ==
  /\ Returned /\ op = "Deploy" /\ Len(selArg.items) > 0 /\ N = 2 /\ result.ok
  /\ ~ Requested(TrimSpace(Units[1].Name)) /\ ~ HasCalls(1)
  /\ \E x \in Pos : trace[x].call = "Deploy" /\ trace[x].unit = 2

\* C7: with a non-empty selection, each operation processes a unit it
\* reaches exactly when the unit's trimmed name is one of the requested names.
C7TrimmedMatch ==
  (op \in {"Deploy", "Render", "Purge"} /\ Len(selArg.items) > 0) =>
    \A j \in 1..N : Visited(j) => (Processed(j) <=> Requested(TrimSpace(Units[j].Name)))

\* C8: a unit with neither engine block never has a construction, a hook or
\* an engine operation; once the loop reaches such a unit and the selection
\* lets it through, the invocation has returned the no-deployment-method error
\* naming it, and every call of the invocation belongs to the wildcard or to a
\* unit earlier in the iteration order.
C8NoMethod ==
  \A j \in 1..N :
    ~ HasEngine(Units[j]) =>
      /\ ~ HasCalls(j)
      /\ (op # "none" /\ Visited(j) /\ ~ Skips(op, deployments, Units[j])) =>
            /\ Returned /\ NoMethod(result)
            /\ result.unit = Units[j].Name
            /\ i = j
            /\ \A x \in Pos : trace[x].unit > 0 =>
                  (IF op = "Purge" THEN trace[x].unit > j ELSE trace[x].unit < j)

C8Witness ==
  /\ Returned /\ op = "Purge" /\ N = 2 /\ NoMethod(result)
  /\ i = 1 /\ ~ HasEngine(Units[1]) /\ result.unit = Units[1].Name
  /\ Deleted(2)

\* the client constructions of the invocation, and the handle each
\* chart-based unit was given
Built == {x \in Pos : trace[x].call = "helmclient.NewClient"}
Got == {<<trace[x].unit, trace[x].handle>> : x \in {y \in Pos : trace[y].call = "helm.New"}}
         \cup (IF pc = "helmNew" THEN {<<i, helmClient>>} ELSE {})
KeyOf(j) == getTillernamespace(client, Units[j])

\* C9: in an invocation in which no client construction failed, a non-empty
\* cache key has at most one construction, every chart-based unit that was
\* given a client was given the handle of the one construction for its key
\* (its own construction when its key is empty), no unit constructs twice,
\* and a handle constructed for the empty key is in no cache entry and was
\* given to no other unit.
C9OncePerKey ==
  (\A x \in Built : trace[x].ok) =>
    /\ \A x, y \in Built :
         /\ (trace[x].key = trace[y].key /\ trace[x].key # "") => x = y
         /\ trace[x].unit = trace[y].unit => x = y
         /\ trace[x].handle = trace[y].handle => x = y
    /\ \A x \in Built : trace[x].key = KeyOf(trace[x].unit)
    /\ \A g \in Got :
         \E x \in Built : /\ trace[x].key = KeyOf(g[1])
                          /\ trace[x].handle = g[2]
                          /\ KeyOf(g[1]) = "" => trace[x].unit = g[1]
    /\ \A x \in Built :
         trace[x].key = "" =>
           /\ \A g \in Got : g[2] = trace[x].handle => g[1] = trace[x].unit
           /\ \A k \in DOMAIN helmV2Clients : helmV2Clients[k] # trace[x].handle
    /\ "" \notin DOMAIN helmV2Clients

\* two units share the one client built for their non-empty key
C9Witness ==
  /\ Returned /\ result.ok /\ N = 2
  /\ KeyOf(1) = KeyOf(2) /\ KeyOf(1) # ""
  /\ Cardinality(Built) = 1
  /\ Cardinality(Got) = 2
  /\ \A g, h \in Got : g[2] = h[2]

\* C10: every handle a chart-based unit is given was constructed earlier in
\* the same invocation, and while an invocation runs its cache map holds only
\* handles constructed in it.
C10FreshPerCall ==
  /\ \A g \in Got :
       /\ g[2][1] = callNo
       /\ \E x \in Built : trace[x].ok /\ trace[x].handle = g[2]
  /\ pc # "idle" => \A k \in DOMAIN helmV2Clients : helmV2Clients[k][1] = callNo

\* a later invocation constructs a client for a key an earlier one had cached
C10Witness ==
  /\ callNo >= 2
  /\ \E x \in Built : /\ trace[x].ok /\ trace[x].key \in built
                       /\ trace[x].handle[1] = callNo
                       /\ <<trace[x].unit, trace[x].handle>> \in Got

IsHook(c) == c.call \in {"Execute", "OnError"}

\* C11: a Render makes no hook call of any timing, stage or target, and
\* invokes neither apply nor delete.
C11RenderNoHooks ==
  op = "Render" =>
    \A x \in Pos : /\ ~ IsHook(trace[x])
                   /\ trace[x].call \notin {"Deploy", "Delete"}

\* a Render that processed one unit and failed on the second
C11Witness ==
  /\ Returned /\ op = "Render" /\ N = 2 /\ ~ result.ok
  /\ \E x, y \in Pos : /\ trace[x].call = "Render" /\ trace[x].unit = 1 /\ trace[x].ok
                        /\ trace[y].unit = 2 /\ ~ trace[y].ok

\* C12: a Deploy on an empty descriptor list (nil or of length 0) makes no
\* call, emits no observation and returns success.
C12EmptyDeploy ==
  (op = "Deploy" /\ N = 0) =>
    /\ trace = <<>>
    /\ log = <<>>
    /\ Returned /\ result.ok

C12Witness ==
  /\ Returned /\ op = "Deploy" /\ ~ configDeployments.isNil /\ N = 0
  /\ result.ok /\ trace = <<>>

IsBefore(c, u) == c.call = "Execute" /\ c.timing = "before" /\ ~ c.wild /\ c.unit = u
IsAfter(c, u) == c.call = "Execute" /\ c.timing = "after" /\ ~ c.wild /\ c.unit = u
IsOnError(c, u) == IsHook(c) /\ c.timing = "onError" /\ c.unit = u
Count(seq, P(_)) == Cardinality({k \in 1..Len(seq) : P(seq[k])})
Logged(level, j) == Count(log, LAMBDA e : e.level = level /\ e.unit = Units[j].Name)

\* C13: in Deploy every apply directly follows the successful before hook of
\* its unit; a failed apply is followed by the on-error hook of the unit, an
\* apply that reported wasApplied by the after hook of the unit, and an apply
\* that succeeded without applying by neither: a skipped observation is
\* emitted and the loop has moved past the unit.  An after hook occurs only
\* directly after such a successful apply, an on-error hook only directly
\* after a failed apply, and no unit has both.
C13Protocol ==
  op = "Deploy" =>
    /\ \A x \in Pos :
         trace[x].call = "Deploy" =>
           LET u == trace[x].unit IN
           /\ x > 1 /\ IsBefore(trace[x - 1], u) /\ trace[x - 1].ok
           /\ IF ~ trace[x].ok
              THEN IF x = Len(trace) THEN pc = "hookOnError" /\ i = u
                   ELSE IsOnError(trace[x + 1], u)
              ELSE IF trace[x].was
              THEN IF x = Len(trace) THEN pc = "hookAfter" /\ i = u
                   ELSE IsAfter(trace[x + 1], u)
              ELSE /\ Logged("Infof", u) = 1
                   /\ \A y \in Pos : ~ IsAfter(trace[y], u) /\ ~ IsOnError(trace[y], u)
                   /\ IF x = Len(trace) THEN pc \notin {"hookAfter", "hookOnError"} /\ i > u
                      ELSE trace[x + 1].unit # u
    /\ \A y \in Pos, u \in 1..N :
         /\ IsAfter(trace[y], u) =>
              /\ y > 1 /\ trace[y - 1].call = "Deploy" /\ trace[y - 1].unit = u
              /\ trace[y - 1].ok /\ trace[y - 1].was
         /\ IsOnError(trace[y], u) =>
              /\ y > 1 /\ trace[y - 1].call = "Deploy" /\ trace[y - 1].unit = u
              /\ ~ trace[y - 1].ok
    /\ \A u \in 1..N :
         /\ ~ ((\E y \in Pos : IsAfter(trace[y], u)) /\ (\E y \in Pos : IsOnError(trace[y], u)))
         /\ Logged("Infof", u) =
              Count(trace, LAMBDA c : c.call = "Deploy" /\ c.unit = u /\ c.ok /\ ~ c.was)

\* a Deploy that skipped unit 1 and applied unit 2
C13Witness ==
  /\ Returned /\ op = "Deploy" /\ N = 2 /\ result.ok
  /\ \E x, y \in Pos : /\ trace[x].call = "Deploy" /\ trace[x].unit = 1
                        /\ trace[x].ok /\ ~ trace[x].was
                        /\ trace[y].call = "Deploy" /\ trace[y].unit = 2 /\ trace[y].was
                        /\ IsAfter(trace[y + 1], 2)

\* C14: a Deploy in which an apply failed ends with the on-error hook of that
\* unit and returns the error that names the unit and carries the apply
\* error, whether the on-error hook succeeded or failed.
C14ApplyErrorKept ==
  (Returned /\ op = "Deploy") =>
    \A x \in Pos :
      (trace[x].call = "Deploy" /\ ~ trace[x].ok) =>
        /\ x = Len(trace) - 1
        /\ IsOnError(trace[x + 1], trace[x].unit)
        /\ result = Error("Error deploying", Units[trace[x].unit].Name, x)

\* the apply failed and the on-error hook failed as well
C14Witness ==
  /\ Returned /\ op = "Deploy" /\ Len(trace) >= 2
  /\ trace[Len(trace) - 1].call = "Deploy" /\ ~ trace[Len(trace) - 1].ok
  /\ trace[Len(trace)].call = "OnError" /\ ~ trace[Len(trace)].ok

DeleteFailed(j) == \E x \in Pos : trace[x].call = "Delete" /\ trace[x].unit = j /\ ~ trace[x].ok
OnErrorOk(j) == \E x \in Pos : IsOnError(trace[x], j) /\ trace[x].ok
AfterOk(j) == \E x \in Pos : IsAfter(trace[x], j) /\ trace[x].ok

\* C15: every warning a Purge emits carries the error that the delete of the
\* warned unit returned.
C15WarningCarriesDeleteError ==
  op = "Purge" =>
    \A k \in 1..Len(log) :
      log[k].level = "Warnf" =>
        /\ log[k].cause > 0
        /\ trace[log[k].cause].call = "Delete"
        /\ ~ trace[log[k].cause].ok
        /\ Units[trace[log[k].cause].unit].Name = log[k].unit

\* C16: in Purge a unit has exactly one deleted confirmation once its loop
\* body has completed (its after hook, or its on-error hook after a failed
\* delete, succeeded) and none before; a unit whose delete failed and whose
\* on-error hook succeeded has exactly one warning as well, and no other
\* unit has a warning.
C16DoneOncePerUnit ==
  op = "Purge" =>
    \A j \in 1..N :
      /\ Logged("Donef", j) = IF AfterOk(j) \/ OnErrorOk(j) THEN 1 ELSE 0
      /\ Logged("Warnf", j) = IF DeleteFailed(j) /\ OnErrorOk(j) THEN 1 ELSE 0

\* unit 2's delete failed and it is both warned about and confirmed; unit 1
\* was deleted and confirmed
C16Witness ==
  /\ Returned /\ op = "Purge" /\ N = 2 /\ result.ok
  /\ DeleteFailed(2) /\ OnErrorOk(2)
  /\ Logged("Warnf", 2) = 1 /\ Logged("Donef", 2) = 1
  /\ AfterOk(1) /\ Logged("Donef", 1) = 1

\* C17: in Purge a failed call other than a delete (a wildcard hook, a
\* construction, a before, after or on-error hook) is the last call of the
\* invocation, and the invocation returns that call's error: after a failed
\* on-error hook the hook's error, not the delete error before it.
C17PurgeFatal ==
  op = "Purge" =>
    \A x \in Pos :
      (~ trace[x].ok /\ trace[x].call # "Delete") =>
        /\ x = Len(trace)
        /\ Returned /\ ~ result.ok
        /\ result.cause = x

\* unit 2's delete and then its on-error hook failed; unit 1 was never reached
C17Witness ==
  /\ Returned /\ op = "Purge" /\ N = 2 /\ selArg.isNil /\ Len(trace) >= 2
  /\ trace[Len(trace) - 1].call = "Delete" /\ trace[Len(trace) - 1].unit = 2
  /\ ~ trace[Len(trace) - 1].ok
  /\ IsOnError(trace[Len(trace)], 2) /\ ~ trace[Len(trace)].ok
  /\ result.cause = Len(trace)
  /\ ~ HasCalls(1)

\* C18: an error Render returns names the unit it was processing.
C18RenderErrorNamesUnit ==
  (Returned /\ op = "Render" /\ ~ result.ok) =>
    /\ i \in 1..N
    /\ result.unit = Units[i].Name

\* the units a Deploy is asked for
DeploySelected(j) == Len(selArg.items) = 0 \/ Requested(TrimSpace(Units[j].Name))
IsAdapter(c, j) == c.call \in {"kubectl.New", "helm.New"} /\ c.unit = j

\* C19: the trace of a Deploy that returned success on a non-empty list
\* starts with the wildcard before hook and ends with the wildcard after
\* hook; between them come, in configuration order, the calls of the selected
\* units and of no other: for each selected unit one adapter construction
\* (for a chart-based unit preceded by at most one client construction),
\* directly followed by its before hook and its apply, followed by its after
\* hook exactly when apply reported wasApplied.  Every call succeeded and no
\* on-error hook occurs.
C19SuccessTrace ==
  (Returned /\ op = "Deploy" /\ result.ok /\ N > 0) =>
    /\ Len(trace) >= 2
    /\ IsBeforeAll(trace[1]) /\ IsAfterAll(trace[Len(trace)])
    /\ \A x \in Pos : trace[x].ok /\ trace[x].timing # "onError"
    /\ \A x \in 2..(Len(trace) - 1) :
         /\ trace[x].unit > 0
         /\ x + 1 < Len(trace) => trace[x].unit <= trace[x + 1].unit
    /\ \A j \in 1..N :
         IF DeploySelected(j)
         THEN /\ Count(trace, LAMBDA c : IsAdapter(c, j)) = 1
              /\ Count(trace, LAMBDA c : IsBefore(c, j)) = 1
              /\ Count(trace, LAMBDA c : c.call = "Deploy" /\ c.unit = j) = 1
              /\ \E x \in Pos :
                   /\ IsAdapter(trace[x], j)
                   /\ IsBefore(trace[x + 1], j)
                   /\ trace[x + 2].call = "Deploy" /\ trace[x + 2].unit = j
                   /\ Count(trace, LAMBDA c : IsAfter(c, j)) = IF trace[x + 2].was THEN 1 ELSE 0
                   /\ trace[x + 2].was => IsAfter(trace[x + 3], j)
                   /\ LET clients == Count(trace, LAMBDA c : c.call = "helmclient.NewClient" /\ c.unit = j)
                      IN /\ clients <= (IF trace[x].call = "helm.New" THEN 1 ELSE 0)
                         /\ clients = 1 => (trace[x - 1].call = "helmclient.NewClient"
                                             /\ trace[x - 1].unit = j)
                         /\ Count(trace, LAMBDA c : c.unit = j)
                              = 3 + clients + (IF trace[x + 2].was THEN 1 ELSE 0)
         ELSE ~ HasCalls(j)

\* both units of the list were selected; one was applied, one skipped
C19Witness ==
  /\ Returned /\ op = "Deploy" /\ result.ok /\ N = 2
  /\ DeploySelected(1) /\ DeploySelected(2)
  /\ \E x, y \in Pos : /\ trace[x].call = "Deploy" /\ trace[x].unit = 1 /\ ~ trace[x].was
                        /\ trace[y].call = "Deploy" /\ trace[y].unit = 2 /\ trace[y].was

\* C20: a Purge on a nil descriptor list makes no call and returns success.
\* A Purge on a non-nil list of which no unit is selected (the list is empty,
\* or no unit's name is requested) calls the wildcard before hook, then, if
\* that succeeded, the wildcard after hook, and nothing else; it returns an
\* error when either fails and success when both succeed.
C20PurgeGuard ==
  op = "Purge" =>
    /\ configDeployments.isNil => (trace = <<>> /\ Returned /\ result.ok)
    /\ (~ configDeployments.isNil /\ \A j \in 1..N : ~ PurgeSelected(j)) =>
         /\ Len(trace) <= 2
         /\ Len(trace) = 0 => pc = "hookBeforeAll"
         /\ Len(trace) >= 1 => IsBeforeAll(trace[1])
         /\ Len(trace) = 1 => IF trace[1].ok THEN pc = "hookAfterAll"
                                             ELSE Returned /\ ~ result.ok
         /\ Len(trace) = 2 => /\ trace[1].ok /\ IsAfterAll(trace[2])
                               /\ Returned
                               /\ result.ok <=> trace[2].ok

\* a Purge on an empty non-nil list ran both wildcard hooks
C20Witness ==
  /\ Returned /\ op = "Purge" /\ ~ configDeployments.isNil /\ N = 0
  /\ Len(trace) = 2 /\ result.ok

TypeOK ==
  /\ pc \in {"idle", "hookBeforeAll", "kubectlNew", "getCachedHelmClient", "helmNew",
             "hookBefore", "operate", "hookOnError", "hookAfter", "hookAfterAll"}
  /\ callNo \in 0..MaxCalls
  /\ pc # "idle" => result = Running
====
